---- MODULE Spec2Model ----
(***************************************************************************)
(* LeagueCoordinator (ding/framework/middleware/league_coordinator.py).    *)
(* Event handlers run on handler threads; each thread has a position (pc)  *)
(* inside the handler it is running.  A handler is cut into steps at its   *)
(* accesses to the coordinator's shared fields; statements that touch only *)
(* thread-local objects are merged into the neighbouring step.             *)
(* The League and the metrics writer are collaborators outside the source; *)
(* they are modelled by their interface.                                   *)
(***************************************************************************)
EXTENDS Integers, Sequences, FiniteSets, TLC

VARIABLES
  active,               \* league.active_players_ids
  lock,                 \* self._lock: NoThread or the holder
  total_send_jobs,      \* self._total_send_jobs
  total_recv_jobs,      \* self._total_recv_jobs
  eval_frequency,       \* self._eval_frequency
  running_jobs,         \* self._running_jobs: dict key -> job
  last_collect_time,    \* self._last_collect_time
  total_collect_time,   \* self._total_collect_time
  traj_num,             \* self._traj_num
  last_get_data_time,   \* self._last_get_data_time
  total_get_data_time,  \* self._total_get_data_time
  pre_collect_finished, \* self._pre_collect_finished
  now,                  \* the wall clock read by time()
  th,                   \* per handler thread: position and locals
  returned,             \* handler calls that returned normally
  raised,               \* per exception, handler calls it left to their caller
  scalars,              \* samples given to self._writer.add_scalar
  lastEmit,             \* the latest task.emit of a dispatch event
  emitCount,            \* per job_no, how many dispatch events carried it
  playerOf,             \* per job_no, the player get_job_info was asked for
  dispatchedMax,        \* per actor, highest job_no dispatched on its channel
  nGreetings,           \* greetings delivered so far
  payoffs,              \* per finished job, calls of league.update_payoff
  nJobEvents,           \* job-finished events delivered so far
  completions,          \* time() read by each job-finished handler, in order
  collectRef,           \* reference time in force when collect time starts
  greeted,              \* a greeting has run lines 77-80
  leagueFaults,         \* failures the league may still answer get_job_info with
  dataLog,              \* per data-arrived call: batch and seconds before it
  gapSum,               \* sum of the gaps the job-finished handlers computed
  metaCalls,            \* calls of the league's player-update methods, in order
  nTicks,               \* calls of __call__ so far
  dist                  \* a call of dist_init: arguments, environment, position

vars == <<active, lock, total_send_jobs, total_recv_jobs, eval_frequency,
          running_jobs, last_collect_time, total_collect_time, traj_num,
          last_get_data_time, total_get_data_time, pre_collect_finished,
          now, th, returned, raised, scalars, lastEmit, emitCount, playerOf, dispatchedMax,
          nGreetings, payoffs, nJobEvents, completions, collectRef, greeted,
          leagueFaults, dataLog, gapSum, metaCalls, nTicks, dist>>

----------------------------------------------------------------------------
(* Bounds *)

MaxGreetings == 6

MaxEvalGreetings == 11

MaxTime == 1200

MaxJobEvents == 3

MaxJobGreetings == 2

MaxDataCalls == 4

NumThreads == 2

MaxLeagueFaults == 1

\* job-finished events handled concurrently, and greetings before them
MaxConcurrentJobEvents == 2

MaxConcurrentGreetings == 1

\* greetings under fair scheduling of the handler threads
MaxFairGreetings == 3

\* the specification of all handlers together: events in all, and calls
\* of __call__ among them
MaxAllEvents == 4

MaxTicks == 1

----------------------------------------------------------------------------
(* Values *)

None == -1

NoThread == 0

NoActor == 0

EvalFrequencyDefault == 10

WarmupThreshold == 600

\* line 123: sleep(1)
TickSeconds == 1

Threads == 1..NumThreads

Actors == {1, 2}

PlayerLists == {<<>>, <<"A", "B", "C">>}

TimeSteps == {300, 600}

JobNos == 0..(IF MaxGreetings > MaxEvalGreetings THEN MaxGreetings ELSE MaxEvalGreetings)

Errors == {"ZeroDivisionError", "AttributeError", "LeagueError", "TypeError"}

LeagueOutcomes == {"job", "none", "raise"}

\* batches of the data-arrived event: train_data is a list of environment
\* groups, each with its list of trajectories
\* the batch the data-arrived events carry, and the seconds that pass
\* between events, when all handlers run together
AllBatches == {<<<<"x", "y">>>>}

AllTimeSteps == {600}

Batches == {<<>>, <<<<"x", "y">>>>, <<<<"x">>, <<"y", "z">>>>}

JobSpeed == "coordinator_collect_job_speed-total_recv_jobs"

CurrentSpeed == "current_traj_speed-total_recv_trajs"

TotalSpeed == "total_traj_speed-total_recv_trajs"

NoJob == [launch_player |-> "", job_no |-> None, is_eval |-> FALSE, actor_id |-> NoActor]

NoEmit == [channel |-> <<"dispatch", NoActor>>, job |-> NoJob]

\* a PlayerMeta, as far as the coordinator reads it, and the absent one
PlayerMetas == {[player_id |-> "A"], [player_id |-> "B"]}

NoMeta == [player_id |-> ""]

IdleThread == [pc |-> "idle", actor |-> NoActor, job |-> NoJob,
               old |-> None, tmp |-> None, data |-> <<>>, meta |-> NoMeta]

EmptyDict == [k \in {} |-> NoJob]

\* jobs that actors report as finished
FinishedJobs ==
  {[launch_player |-> "A", job_no |-> 0, is_eval |-> FALSE, actor_id |-> 1],
   [launch_player |-> "B", job_no |-> 1, is_eval |-> FALSE, actor_id |-> 2]}

\* no call of dist_init is under way
DistNotCalled == [pc |-> "none"]

----------------------------------------------------------------------------
(* State after LeagueCoordinator.__init__ *)

CoordinatorInit ==
  /\ active \in PlayerLists
  /\ lock = NoThread
  /\ total_send_jobs = 0
  /\ total_recv_jobs = 0
  /\ eval_frequency = EvalFrequencyDefault
  /\ running_jobs = EmptyDict
  /\ last_collect_time = None
  /\ total_collect_time = None
  /\ traj_num = 0
  /\ last_get_data_time = None
  /\ total_get_data_time = 0
  /\ pre_collect_finished = FALSE
  /\ now = 0
  /\ th = [t \in Threads |-> IdleThread]
  /\ returned = 0
  /\ raised = [e \in Errors |-> 0]
  /\ scalars = <<>>
  /\ lastEmit = NoEmit
  /\ emitCount = [n \in JobNos |-> 0]
  /\ playerOf = [n \in JobNos |-> ""]
  /\ dispatchedMax = [a \in Actors |-> None]
  /\ nGreetings = 0
  /\ payoffs = [j \in FinishedJobs |-> 0]
  /\ nJobEvents = 0
  /\ completions = <<>>
  /\ collectRef = None
  /\ greeted = FALSE
  /\ leagueFaults = MaxLeagueFaults
  /\ dataLog = <<>>
  /\ gapSum = 0
  /\ metaCalls = <<>>
  /\ nTicks = 0

\* the coordinator is constructed; dist_init is not called
Init == CoordinatorInit /\ dist = DistNotCalled

----------------------------------------------------------------------------
(* Helpers shared by the handlers *)

\* a thread can be handed the next event when it is running no handler
Ready(t) == th[t].pc = "idle"

\* the handler of thread t returns normally
Return(t) ==
  /\ th' = [th EXCEPT ![t] = IdleThread]
  /\ returned' = returned + 1
  /\ UNCHANGED raised

\* the handler of thread t is left by exception e, which reaches its caller
Raise(t, e) ==
  /\ th' = [th EXCEPT ![t] = IdleThread]
  /\ raised' = [raised EXCEPT ![e] = @ + 1]
  /\ UNCHANGED returned

\* an initialisation that overwrites the field on every call
LazyInitAlways(x, v) == v

\* `if x is None: x = v`
LazyInit(x, v) == IF x = None THEN v ELSE x

\* "actor_{}".format(actor_id)
ActorKey(a) == <<"actor", a>>

\* EventEnum.COORDINATOR_DISPATCH_ACTOR_JOB.format(actor_id=actor_id)
DispatchChannel(a) == <<"dispatch", a>>

\* d[k] = v
DictPutNothing(d, k, v) == d

DictPutOnly(d, k, v) == [x \in {k} |-> v]

DictPut(d, k, v) == [x \in (DOMAIN d) \cup {k} |-> IF x = k THEN v ELSE d[x]]

\* league.get_job_info(player_id): a fresh job launched for player_id
get_job_info(player_id) == [NoJob EXCEPT !.launch_player = player_id]

\* the league's possible answers to get_job_info
LeagueAnswers == IF leagueFaults > 0 THEN LeagueOutcomes ELSE {"job"}

\* a lock that excludes nobody
LockFreeNoMutex == TRUE

\* Lock.acquire succeeds only on a free lock
LockFree == lock = NoThread

\* the round-robin index taken one too far
PlayerIndexOffByOne(n, player_num) == (n + 1) % player_num

\* total_send_jobs % player_num, for player_num > 0
PlayerIndex(n, player_num) == n % player_num

\* the eval test without its `job_no > 0` conjunct
IsEvalNoZeroGuard(job_no, freq) == job_no % freq = 0

\* job.job_no > 0 and job.job_no % self._eval_frequency == 0
IsEval(job_no, freq) == job_no > 0 /\ job_no % freq = 0

\* a handler that goes on with whatever the league answered
AssignErrorIgnored(outcome) == ""

\* lines 84-85: the exception, if any, that the league's answer leads to;
\* `job.job_no = ...` on None is an AttributeError
AssignError(outcome) ==
  CASE outcome = "job" -> ""
    [] outcome = "none" -> "AttributeError"
    [] outcome = "raise" -> "LeagueError"

Max(a, b) == IF a >= b THEN a ELSE b

unchangedData == UNCHANGED <<traj_num, last_get_data_time, total_get_data_time,
                             pre_collect_finished, dataLog>>

unchangedJobStats == UNCHANGED <<total_recv_jobs, payoffs, nJobEvents, completions>>

unchangedDispatch == UNCHANGED <<lastEmit, emitCount, dispatchedMax>>

unchangedResults == UNCHANGED <<returned, raised>>

unchangedGreeting == UNCHANGED <<active, lock, total_send_jobs, eval_frequency,
                                 running_jobs, playerOf, nGreetings, leagueFaults>>

unchangedCollect == UNCHANGED <<last_collect_time, total_collect_time, collectRef, greeted>>

unchangedLeague == UNCHANGED <<metaCalls, nTicks, dist>>

unchangedExtra == unchangedLeague /\ UNCHANGED gapSum

\* time passes
AdvanceClock(d) ==
  /\ unchangedExtra
  /\ now + d <= MaxTime
  /\ now' = now + d
  /\ unchangedData /\ unchangedJobStats /\ unchangedDispatch /\ unchangedResults
  /\ unchangedGreeting /\ unchangedCollect
  /\ UNCHANGED <<th, scalars>>

----------------------------------------------------------------------------
(* _on_actor_greeting(actor_id) *)

\* lines 76-80: the handler starts and initialises the collect-time fields
Greet_Begin(t, a) ==
  /\ unchangedExtra
  /\ Ready(t)
  /\ nGreetings' = nGreetings + 1
  /\ last_collect_time' = LazyInit(last_collect_time, now)
  /\ total_collect_time' = LazyInit(total_collect_time, 0)
  /\ th' = [th EXCEPT ![t] = [IdleThread EXCEPT !.pc = "acquire", !.actor = a]]
  /\ greeted' = TRUE
  /\ collectRef' = IF greeted \/ collectRef # None THEN collectRef ELSE now
  /\ unchangedData /\ unchangedJobStats /\ unchangedDispatch /\ unchangedResults
  /\ UNCHANGED <<active, lock, total_send_jobs, eval_frequency, running_jobs,
                 now, scalars, playerOf, leagueFaults>>

\* an exception in lines 82-85 that is swallowed: the handler just returns
Greet_AssignFailsSwallowed(t, e) ==
  /\ lock' = NoThread
  /\ Return(t)
  /\ UNCHANGED playerOf

Greet_AssignFailsKeepsLock(t, e) ==
  /\ lock' = t
  /\ Raise(t, e)
  /\ UNCHANGED playerOf

\* lines 82-85 end in exception e: the with block releases the lock on its way out
Greet_AssignFails(t, e) ==
  /\ lock' = NoThread
  /\ Raise(t, e)
  /\ UNCHANGED playerOf

\* lines 82-85 when the league hands out a job: the thread now holds the lock
Greet_AssignJob(t, player_id) ==
  /\ lock' = t
  /\ th' = [th EXCEPT ![t].pc = "incr",
                       ![t].job = [get_job_info(player_id) EXCEPT !.job_no = total_send_jobs]]
  /\ playerOf' = [playerOf EXCEPT ![total_send_jobs] = player_id]
  /\ UNCHANGED <<returned, raised>>

\* lines 81-85: enter the lock, pick the player, ask the league, number the job
Greet_Assign(t) ==
  /\ unchangedExtra
  /\ th[t].pc = "acquire"
  /\ LockFree
  /\ LET player_num == Len(active) IN
       IF player_num = 0
         THEN /\ Greet_AssignFails(t, "ZeroDivisionError")
              /\ UNCHANGED leagueFaults
         ELSE \E outcome \in LeagueAnswers :
                LET player_id == active[PlayerIndex(total_send_jobs, player_num) + 1] IN
                  /\ leagueFaults' = IF outcome = "job" THEN leagueFaults ELSE leagueFaults - 1
                  /\ IF AssignError(outcome) = ""
                       THEN Greet_AssignJob(t, player_id)
                       ELSE Greet_AssignFails(t, AssignError(outcome))
  /\ unchangedData /\ unchangedJobStats /\ unchangedDispatch
  /\ UNCHANGED <<active, total_send_jobs, eval_frequency, running_jobs,
                 last_collect_time, total_collect_time, now, scalars,
                 nGreetings, collectRef, greeted>>

\* line 86 and the exit of the with block
Greet_Incr(t) ==
  /\ unchangedExtra
  /\ th[t].pc = "incr"
  /\ total_send_jobs' = total_send_jobs + 1
  /\ lock' = NoThread
  /\ th' = [th EXCEPT ![t].pc = "record"]
  /\ unchangedData /\ unchangedJobStats /\ unchangedDispatch /\ unchangedResults
  /\ UNCHANGED <<active, eval_frequency, running_jobs, last_collect_time,
                 total_collect_time, now, scalars, playerOf, nGreetings,
                 collectRef, greeted, leagueFaults>>

\* lines 87-89: the job as it is recorded and dispatched
Greet_Annotate(job, a) ==
  [job EXCEPT !.is_eval = IF IsEval(job.job_no, eval_frequency) THEN TRUE ELSE @,
              !.actor_id = a]

\* lines 87-90: eval flag, actor id, running-jobs entry
Greet_Record(t) ==
  /\ unchangedExtra
  /\ th[t].pc = "record"
  /\ LET job == Greet_Annotate(th[t].job, th[t].actor) IN
       /\ running_jobs' = DictPut(running_jobs, ActorKey(th[t].actor), job)
       /\ th' = [th EXCEPT ![t].pc = "emit", ![t].job = job]
  /\ unchangedData /\ unchangedJobStats /\ unchangedDispatch /\ unchangedResults
  /\ UNCHANGED <<active, lock, total_send_jobs, eval_frequency, last_collect_time,
                 total_collect_time, now, scalars, playerOf, nGreetings,
                 collectRef, greeted, leagueFaults>>

\* line 91: task.emit of the dispatch event, then the handler returns
Greet_Emit(t) ==
  /\ unchangedExtra
  /\ th[t].pc = "emit"
  /\ lastEmit' = [channel |-> DispatchChannel(th[t].actor), job |-> th[t].job]
  /\ emitCount' = [emitCount EXCEPT ![th[t].job.job_no] = @ + 1]
  /\ dispatchedMax' = [dispatchedMax EXCEPT ![th[t].actor] = Max(@, th[t].job.job_no)]
  /\ Return(t)
  /\ unchangedData /\ unchangedJobStats
  /\ UNCHANGED <<active, lock, total_send_jobs, eval_frequency, running_jobs,
                 last_collect_time, total_collect_time, now, scalars, playerOf,
                 nGreetings, collectRef, greeted, leagueFaults>>

\* the steps of a greeting handler after its start
Greet_Step(t) ==
  \/ Greet_Assign(t)
  \/ Greet_Incr(t)
  \/ Greet_Record(t)
  \/ Greet_Emit(t)

\* greetings of all actors, handled concurrently
NextGreeting ==
  \E t \in Threads :
    \/ \E a \in Actors : nGreetings < MaxGreetings /\ Greet_Begin(t, a)
    \/ Greet_Step(t)

SpecGreeting == Init /\ [][NextGreeting]_vars

\* a long run of greetings of one actor, handled concurrently
NextEval ==
  \E t \in Threads :
    \/ \E a \in {1} : nGreetings < MaxEvalGreetings /\ Greet_Begin(t, a)
    \/ Greet_Step(t)

SpecEval == Init /\ [][NextEval]_vars


\* greetings of both actors, each handler thread being scheduled again and
\* again until it has returned or raised
NextFair ==
  \E t \in Threads :
    \/ \E a \in Actors : nGreetings < MaxFairGreetings /\ Greet_Begin(t, a)
    \/ Greet_Step(t)

SpecFair ==
  Init /\ [][NextFair]_vars /\ \A t \in Threads : WF_vars(Greet_Step(t))

----------------------------------------------------------------------------
(* _count_data(data) *)

InData(t) == th[t].pc = "d_measure"

\* the warm-up test without its threshold
WarmupOverAtOnce(total, finished) == finished = FALSE

\* line 47: self._total_get_data_time >= 60 * 10 and self._pre_collect_finished is False
WarmupOverAgain(total, finished) == total >= WarmupThreshold

WarmupOver(total, finished) == total >= WarmupThreshold /\ finished = FALSE

RECURSIVE CountFrom(_, _)
\* lines 57-61: one increment per trajectory of every environment group
CountFrom(train_data, i) ==
  IF i > Len(train_data) THEN 0
  ELSE Len(train_data[i]) + CountFrom(train_data, i + 1)

\* a count of the environment groups instead of their trajectories
CountGroups(train_data) == Len(train_data)

\* lines 57-61: current_traj_num of a batch
CountTrajectories(train_data) == CountFrom(train_data, 1)

\* lines 44-49: first timestamp, end of the warm-up
Data_Begin(t, data) ==
  /\ unchangedExtra
  /\ Ready(t)
  /\ last_get_data_time' = LazyInit(last_get_data_time, now)
  /\ IF WarmupOver(total_get_data_time, pre_collect_finished)
       THEN pre_collect_finished' = TRUE /\ total_get_data_time' = 0
       ELSE UNCHANGED <<pre_collect_finished, total_get_data_time>>
  /\ th' = [th EXCEPT ![t] = [IdleThread EXCEPT !.pc = "d_measure", !.data = data]]
  /\ dataLog' = Append(dataLog, [data |-> data, begin |-> now, end |-> None])
  /\ unchangedJobStats /\ unchangedDispatch /\ unchangedResults
  /\ unchangedGreeting /\ unchangedCollect
  /\ UNCHANGED <<traj_num, now, scalars>>

\* lines 68-73: the two samples of one call, (name, value as a fraction, step)
Data_Samples(current_traj_num, current_get_data_time, traj, total) ==
  <<[name |-> CurrentSpeed, num |-> current_traj_num, den |-> current_get_data_time,
     step |-> total],
    [name |-> TotalSpeed, num |-> traj, den |-> total, step |-> total]>>

\* lines 51-73: elapsed time, trajectory count, the two rates
Data_Finish(t) ==
  /\ unchangedExtra
  /\ InData(t)
  /\ LET finish_get_data_time == now
         current_get_data_time == finish_get_data_time - last_get_data_time
         total == total_get_data_time + current_get_data_time
         current_traj_num == CountTrajectories(th[t].data)
     IN
       /\ total_get_data_time' = total
       /\ last_get_data_time' = finish_get_data_time
       /\ dataLog' = [dataLog EXCEPT ![Len(dataLog)].end = finish_get_data_time]
       /\ IF pre_collect_finished
            THEN /\ traj_num' = traj_num + current_traj_num
                 /\ IF current_get_data_time = 0 \/ total = 0
                      THEN Raise(t, "ZeroDivisionError") /\ UNCHANGED scalars
                      ELSE /\ scalars' = scalars \o Data_Samples(current_traj_num,
                                              current_get_data_time, traj_num', total)
                           /\ Return(t)
            ELSE /\ Return(t)
                 /\ UNCHANGED <<traj_num, scalars>>
  /\ unchangedJobStats /\ unchangedDispatch
  /\ unchangedGreeting /\ unchangedCollect
  /\ UNCHANGED <<pre_collect_finished, now>>

\* data-arrived events, handled one at a time, while time passes
NextData ==
  \/ \E t \in Threads, data \in Batches :
       /\ Len(dataLog) < MaxDataCalls
       /\ \A u \in Threads : ~InData(u)
       /\ Data_Begin(t, data)
  \/ \E t \in Threads : Data_Finish(t)
  \/ \E d \in TimeSteps : AdvanceClock(d)

SpecData == Init /\ [][NextData]_vars

----------------------------------------------------------------------------
(* _on_actor_job(job) *)

InJob(t) == th[t].pc \in {"j_store", "j_old", "j_stamp", "j_load", "j_acc",
                          "j_report", "j_payoff"}

\* line 102, the read of self._total_recv_jobs += 1
Job_LoadRecv(t, job) ==
  /\ unchangedExtra
  /\ Ready(t)
  /\ th' = [th EXCEPT ![t] = [IdleThread EXCEPT !.pc = "j_store", !.job = job,
                                                !.tmp = total_recv_jobs]]
  /\ nJobEvents' = nJobEvents + 1
  /\ unchangedData /\ unchangedDispatch /\ unchangedResults
  /\ unchangedGreeting /\ unchangedCollect
  /\ UNCHANGED <<total_recv_jobs, payoffs, completions, now, scalars>>

\* line 102, the write
Job_StoreRecv(t) ==
  /\ unchangedExtra
  /\ th[t].pc = "j_store"
  /\ total_recv_jobs' = th[t].tmp + 1
  /\ th' = [th EXCEPT ![t].pc = "j_old", ![t].tmp = None]
  /\ unchangedData /\ unchangedDispatch /\ unchangedResults
  /\ unchangedGreeting /\ unchangedCollect
  /\ UNCHANGED <<payoffs, nJobEvents, completions, now, scalars>>

\* line 103
Job_ReadOld(t) ==
  /\ unchangedExtra
  /\ th[t].pc = "j_old"
  /\ th' = [th EXCEPT ![t].pc = "j_stamp", ![t].old = last_collect_time]
  /\ unchangedData /\ unchangedJobStats /\ unchangedDispatch /\ unchangedResults
  /\ unchangedGreeting /\ unchangedCollect
  /\ UNCHANGED <<now, scalars>>

\* line 104
Job_Stamp(t) ==
  /\ unchangedExtra
  /\ th[t].pc = "j_stamp"
  /\ last_collect_time' = now
  /\ completions' = Append(completions, now)
  /\ th' = [th EXCEPT ![t].pc = "j_load"]
  /\ unchangedData /\ unchangedDispatch /\ unchangedResults /\ unchangedGreeting
  /\ UNCHANGED <<total_recv_jobs, payoffs, nJobEvents, total_collect_time,
                 collectRef, greeted, now, scalars>>

\* line 105, the evaluation: float - None and None + float are TypeErrors
Job_LoadTotal(t) ==
  /\ unchangedLeague
  /\ th[t].pc = "j_load"
  /\ IF th[t].old = None \/ total_collect_time = None
       THEN /\ Raise(t, "TypeError")
            /\ collectRef' = completions[Len(completions)]
            /\ UNCHANGED gapSum
       ELSE /\ th' = [th EXCEPT ![t].pc = "j_acc",
                        ![t].tmp = total_collect_time + (last_collect_time - th[t].old)]
            /\ gapSum' = gapSum + (last_collect_time - th[t].old)
            /\ UNCHANGED <<collectRef, returned, raised>>
  /\ unchangedData /\ unchangedJobStats /\ unchangedDispatch /\ unchangedGreeting
  /\ UNCHANGED <<last_collect_time, total_collect_time, greeted, now, scalars>>

\* line 105, the write
Job_StoreTotal(t) ==
  /\ unchangedExtra
  /\ th[t].pc = "j_acc"
  /\ total_collect_time' = th[t].tmp
  /\ th' = [th EXCEPT ![t].pc = "j_report", ![t].tmp = None, ![t].old = None]
  /\ unchangedData /\ unchangedJobStats /\ unchangedDispatch /\ unchangedResults
  /\ unchangedGreeting
  /\ UNCHANGED <<last_collect_time, collectRef, greeted, now, scalars>>

\* lines 106-116: the average, logged and given to the writer
Job_Report(t) ==
  /\ unchangedExtra
  /\ th[t].pc = "j_report"
  /\ scalars' = Append(scalars, [name |-> JobSpeed, num |-> total_collect_time,
                                 den |-> total_recv_jobs, step |-> total_recv_jobs])
  /\ th' = [th EXCEPT ![t].pc = "j_payoff"]
  /\ unchangedData /\ unchangedJobStats /\ unchangedDispatch /\ unchangedResults
  /\ unchangedGreeting /\ unchangedCollect
  /\ UNCHANGED now

\* line 117
Job_Payoff(t) ==
  /\ unchangedExtra
  /\ th[t].pc = "j_payoff"
  /\ payoffs' = [payoffs EXCEPT ![th[t].job] = @ + 1]
  /\ Return(t)
  /\ unchangedData /\ unchangedDispatch /\ unchangedGreeting /\ unchangedCollect
  /\ UNCHANGED <<total_recv_jobs, nJobEvents, completions, now, scalars>>

\* the steps of a job-finished handler after its start
Job_Step(t) ==
  \/ Job_StoreRecv(t)
  \/ Job_ReadOld(t)
  \/ Job_Stamp(t)
  \/ Job_LoadTotal(t)
  \/ Job_StoreTotal(t)
  \/ Job_Report(t)
  \/ Job_Payoff(t)

\* greetings and job-finished events, handled one at a time, while time passes
NextJob ==
  \/ \E t \in Threads :
       \/ \E a \in {1} :
            /\ nGreetings < MaxJobGreetings
            /\ \A u \in Threads : Ready(u)
            /\ Greet_Begin(t, a)
       \/ Greet_Step(t)
       \/ \E job \in FinishedJobs :
            /\ nJobEvents < MaxJobEvents
            /\ \A u \in Threads : Ready(u)
            /\ Job_LoadRecv(t, job)
       \/ Job_Step(t)
  \/ \E d \in TimeSteps : AdvanceClock(d)

SpecJob == Init /\ [][NextJob]_vars


\* job-finished events handled by several threads at once, after or before
\* a greeting, while time passes
NextJobConcurrent ==
  \/ \E t \in Threads :
       \/ \E a \in {1} :
            /\ nGreetings < MaxConcurrentGreetings
            /\ \A u \in Threads : Ready(u)
            /\ Greet_Begin(t, a)
       \/ Greet_Step(t)
       \/ \E job \in FinishedJobs :
            /\ nJobEvents < MaxConcurrentJobEvents
            /\ Job_LoadRecv(t, job)
       \/ Job_Step(t)
  \/ \E d \in TimeSteps : AdvanceClock(d)

SpecJobConcurrent == Init /\ [][NextJobConcurrent]_vars

----------------------------------------------------------------------------
(* _on_learner_meta, lines 93-99, and __call__, lines 122-126 *)

\* update_active_player and create_historical_player take any PlayerMeta,
\* also one of a player they have seen, and return
LeagueUpdateAnswers == {"done"}

MetaForwardReversed(k) ==
  IF k = 1 THEN "create_historical_player" ELSE "update_active_player"

\* the league method called by the k-th statement after the log line
MetaForward(k) ==
  IF k = 1 THEN "update_active_player" ELSE "create_historical_player"

\* lines 94-98: log, then the first league call with the meta received
Meta_Update(t, player_meta) ==
  /\ Ready(t)
  /\ \E answer \in LeagueUpdateAnswers :
       IF answer = "done"
         THEN /\ metaCalls' = Append(metaCalls, [op |-> MetaForward(1), meta |-> player_meta])
              /\ th' = [th EXCEPT ![t] = [IdleThread EXCEPT !.pc = "m_hist",
                                                             !.meta = player_meta]]
              /\ unchangedResults
         ELSE Raise(t, "LeagueError") /\ UNCHANGED metaCalls
  /\ unchangedData /\ unchangedJobStats /\ unchangedDispatch
  /\ unchangedGreeting /\ unchangedCollect
  /\ UNCHANGED <<now, scalars, gapSum, nTicks, dist>>

\* line 99: the second league call with the same meta
Meta_Historical(t) ==
  /\ th[t].pc = "m_hist"
  /\ \E answer \in LeagueUpdateAnswers :
       IF answer = "done"
         THEN /\ metaCalls' = Append(metaCalls, [op |-> MetaForward(2), meta |-> th[t].meta])
              /\ Return(t)
         ELSE Raise(t, "LeagueError") /\ UNCHANGED metaCalls
  /\ unchangedData /\ unchangedJobStats /\ unchangedDispatch
  /\ unchangedGreeting /\ unchangedCollect
  /\ UNCHANGED <<now, scalars, gapSum, nTicks, dist>>

\* lines 123-126: sleep one second, then log the running-jobs table, which
\* is only read
Tick(t) ==
  /\ Ready(t)
  /\ now + TickSeconds <= MaxTime
  /\ now' = now + TickSeconds
  /\ nTicks' = nTicks + 1
  /\ returned' = returned + 1
  /\ unchangedData /\ unchangedJobStats /\ unchangedDispatch
  /\ unchangedGreeting /\ unchangedCollect
  /\ UNCHANGED <<th, raised, scalars, gapSum, metaCalls, dist>>

\* events whose handling has begun
EventsHandled ==
  nGreetings + nJobEvents + Len(dataLog) + (Len(metaCalls) + 1) \div 2 + nTicks

\* the next event is taken up when no handler is running
NextEvent == EventsHandled < MaxAllEvents /\ \A u \in Threads : Ready(u)

\* every event the coordinator subscribes to and the periodic call, handled
\* one at a time, while time passes
NextAll ==
  \/ \E t \in {1} :
       \/ \E a \in Actors :
            /\ NextEvent
            /\ Greet_Begin(t, a)
       \/ Greet_Step(t)
       \/ \E job \in FinishedJobs :
            /\ NextEvent
            /\ Job_LoadRecv(t, job)
       \/ Job_Step(t)
       \/ \E data \in AllBatches :
            /\ NextEvent
            /\ Data_Begin(t, data)
       \/ Data_Finish(t)
       \/ \E player_meta \in PlayerMetas :
            /\ NextEvent
            /\ Meta_Update(t, player_meta)
       \/ Meta_Historical(t)
       \/ /\ nTicks < MaxTicks
          /\ NextEvent
          /\ Tick(t)
  \/ \E d \in AllTimeSteps : AdvanceClock(d)

SpecAll == Init /\ [][NextAll]_vars

----------------------------------------------------------------------------
(* dist_init, pytorch_ddp_dist_helper.py lines 163-207 *)

\* an environment variable that is not set; os.environ.get(..., None) then
\* gives None
Unset == "<unset>"

\* an argument left at its default None (strings) or given as ''
NoArg == ""

EnvNames ==
  {"MASTER_ADDR", "MASTER_PORT", "SLURM_LOCALID", "RANK", "SLURM_NTASKS", "WORLD_SIZE"}

\* the values the environment may hold for each variable
EnvValues(name) ==
  CASE name = "MASTER_ADDR" -> {Unset, "host"}
    [] name = "MASTER_PORT" -> {Unset, "12345"}
    [] name = "SLURM_LOCALID" -> {Unset, "1"}
    [] name = "RANK" -> {Unset, "0", "x"}
    [] name = "SLURM_NTASKS" -> {Unset, "2"}
    [] name = "WORLD_SIZE" -> {Unset, "1"}

Environments == {e \in [EnvNames -> {Unset, "host", "12345", "0", "1", "2", "x"}] :
                   \A name \in EnvNames : e[name] \in EnvValues(name)}

DistArgs ==
  [backend : {"nccl", "gloo", "mpi"}, addr : {NoArg, "10.0.0.1"}, port : {NoArg, "29500"},
   rank : {None, 0}, world_size : {None, 2}]

RankMessage == "please indicate rank explicitly in dist_init method"

WorldSizeMessage == "please indicate world_size explicitly in dist_init method"

\* dist_init has been called and has executed nothing yet
DistCalled(args, env) ==
  [pc |-> "env", args |-> args, env |-> env, rank |-> args.rank,
   world_size |-> args.world_size, err |-> "", msg |-> "", at |-> "",
   inits |-> 0, steps |-> 0, device |-> None]

EnvGetOrZero(env, name, default) ==
  IF env[name] # Unset THEN env[name] ELSE IF default = Unset THEN "0" ELSE default

\* os.environ.get(name, default)
EnvGet(env, name, default) == IF env[name] # Unset THEN env[name] ELSE default

\* a or b, for strings
Or(a, b) == IF a # NoArg THEN a ELSE b

IsNumeral(s) == s \in {"0", "1", "2"}

\* int(s) for a numeral s
ParseInt(s) == CASE s = "0" -> 0 [] s = "1" -> 1 [] s = "2" -> 2

DistRaise(err, msg) ==
  dist' = [dist EXCEPT !.pc = "raised", !.err = err, !.msg = msg, !.at = dist.pc,
                       !.steps = @ + 1]

unchangedCoordinator ==
  /\ unchangedData /\ unchangedJobStats /\ unchangedDispatch /\ unchangedResults
  /\ unchangedGreeting /\ unchangedCollect
  /\ UNCHANGED <<now, th, scalars, gapSum, metaCalls, nTicks>>

\* lines 184-186: the backend is checked, the master address and port are
\* put into the environment
Dist_Env ==
  /\ dist.pc = "env"
  /\ IF dist.args.backend \notin {"nccl", "gloo"}
       THEN DistRaise("AssertionError", dist.args.backend)
       ELSE dist' = [dist EXCEPT
              !.pc = "rank",
              !.steps = @ + 1,
              !.env = [@ EXCEPT
                 !["MASTER_ADDR"] = Or(dist.args.addr, EnvGet(dist.env, "MASTER_ADDR", "localhost")),
                 !["MASTER_PORT"] = Or(dist.args.port, EnvGet(dist.env, "MASTER_PORT", "10314"))]]
  /\ unchangedCoordinator

\* lines 188-193: the rank, from the argument or the environment
Dist_Rank ==
  /\ dist.pc = "rank"
  /\ IF dist.rank # None
       THEN dist' = [dist EXCEPT !.pc = "world_size", !.steps = @ + 1]
       ELSE LET local_id == EnvGet(dist.env, "SLURM_LOCALID", EnvGet(dist.env, "RANK", Unset))
            IN IF local_id = Unset
                 THEN DistRaise("RuntimeError", RankMessage)
                 ELSE IF ~IsNumeral(local_id)
                   THEN DistRaise("ValueError", local_id)
                   ELSE dist' = [dist EXCEPT !.pc = "world_size", !.steps = @ + 1,
                                             !.rank = ParseInt(local_id)]
  /\ unchangedCoordinator

\* lines 194-199: the world size, from the argument or the environment
Dist_WorldSize ==
  /\ dist.pc = "world_size"
  /\ IF dist.world_size # None
       THEN dist' = [dist EXCEPT !.pc = "group", !.steps = @ + 1]
       ELSE LET ntasks == EnvGet(dist.env, "SLURM_NTASKS", EnvGet(dist.env, "WORLD_SIZE", Unset))
            IN IF ntasks = Unset
                 THEN DistRaise("RuntimeError", WorldSizeMessage)
                 ELSE IF ~IsNumeral(ntasks)
                   THEN DistRaise("ValueError", ntasks)
                   ELSE dist' = [dist EXCEPT !.pc = "group", !.steps = @ + 1,
                                             !.world_size = ParseInt(ntasks)]
  /\ unchangedCoordinator

\* lines 201-207: the process group is initialised, the device chosen among
\* the num_gpus devices of the machine, rank and world size returned
Dist_Group ==
  /\ dist.pc = "group"
  /\ \E num_gpus \in {0, 2} :
       IF num_gpus = 0
         THEN dist' = [dist EXCEPT !.pc = "raised", !.err = "ZeroDivisionError",
                                   !.at = "group", !.inits = @ + 1, !.steps = @ + 1]
         ELSE dist' = [dist EXCEPT !.pc = "returned", !.inits = @ + 1, !.steps = @ + 1,
                                   !.device = dist.rank % num_gpus]
  /\ unchangedCoordinator

NextDist == Dist_Env \/ Dist_Rank \/ Dist_WorldSize \/ Dist_Group

\* one call of dist_init, with any arguments in any environment
InitDist ==
  /\ CoordinatorInit
  /\ dist \in {DistCalled(args, env) : args \in DistArgs, env \in Environments}

SpecDist == InitDist /\ [][NextDist]_vars

----------------------------------------------------------------------------
(* Properties of the greeting handler *)

\* threads holding a numbered job that is not dispatched yet
Holding == {t \in Threads : th[t].pc \in {"incr", "record", "emit"}}

RECURSIVE SumOf(_, _)
SumOf(f, S) ==
  IF S = {} THEN 0
  ELSE LET x == CHOOSE y \in S : TRUE IN f[x] + SumOf(f, S \ {x})

Quiescent == \A t \in Threads : th[t].pc = "idle"

Dispatched == {n \in JobNos : emitCount[n] > 0}

\* C1: the sequence numbers given to greetings are exactly 0..N-1, N the
\* number of greetings that got a job: none is given twice, none is skipped,
\* under every interleaving of the handlers.
C1_SequenceNumbers ==
  /\ \A n \in JobNos : emitCount[n] <= 1
  /\ \A t \in Holding : emitCount[th[t].job.job_no] = 0
  /\ \A t, u \in Holding : t # u => th[t].job.job_no # th[u].job.job_no
  /\ Dispatched \cup {th[t].job.job_no : t \in Holding}
       = 0..(returned + Cardinality(Holding) - 1)
  /\ Quiescent => Dispatched = 0..(returned - 1)

C1_Witness ==
  /\ Quiescent
  /\ returned = MaxGreetings
  /\ Dispatched = 0..(MaxGreetings - 1)

\* C2: the job with sequence number n was requested for the active player
\* at index n mod P, so the numbers cycle through the players in list order.
C2_RoundRobin ==
  \A n \in JobNos :
    IF n < total_send_jobs \/ \E t \in Holding : th[t].job.job_no = n
      THEN Len(active) > 0 /\ playerOf[n] = active[(n % Len(active)) + 1]
      ELSE playerOf[n] = ""

C2_Witness ==
  /\ Dispatched = 0..5
  /\ <<playerOf[0], playerOf[1], playerOf[2], playerOf[3], playerOf[4], playerOf[5]>>
       = <<"A", "B", "C", "A", "B", "C">>

\* C3: a dispatched job is an eval job iff its sequence number is positive
\* and divisible by the evaluation frequency (10 after construction): with
\* frequency 10 that is 10, 20, 30, with frequency 2 it is 2 and 4.
C3_EvalFlag ==
  /\ lastEmit # NoEmit =>
       (lastEmit.job.is_eval
          <=> (lastEmit.job.job_no > 0 /\ lastEmit.job.job_no % eval_frequency = 0))
  /\ eval_frequency = EvalFrequencyDefault
  /\ \A n \in 0..30 : IsEval(n, eval_frequency) <=> n \in {10, 20, 30}
  /\ \A n \in 0..5 : IsEval(n, 2) <=> n \in {2, 4}

C3_Witness ==
  /\ lastEmit.job.job_no = 10
  /\ lastEmit.job.is_eval
  /\ \E t \in Threads : th[t].pc = "emit" /\ th[t].job.job_no = 9 /\ ~th[t].job.is_eval

\* C4: once all greetings are handled the running-jobs table has exactly one
\* entry per actor that was dispatched a job, holding the job with the
\* highest sequence number dispatched to that actor.
C4_TableHoldsLatest ==
  Quiescent =>
    \A a \in Actors :
      IF dispatchedMax[a] = None
        THEN ActorKey(a) \notin DOMAIN running_jobs
        ELSE /\ ActorKey(a) \in DOMAIN running_jobs
             /\ running_jobs[ActorKey(a)].actor_id = a
             /\ running_jobs[ActorKey(a)].job_no = dispatchedMax[a]

\* C5: with no active player every greeting ends in an exception that
\* reaches the caller, and no dispatch event is emitted.
C5_NoActivePlayers ==
  active = <<>> =>
    /\ \A t \in Threads : th[t].pc \in {"idle", "acquire"}
    /\ returned = 0
    /\ raised["ZeroDivisionError"]
         = nGreetings - Cardinality({t \in Threads : th[t].pc = "acquire"})
    /\ lastEmit = NoEmit
    /\ Dispatched = {}

C5_Witness ==
  /\ active = <<>>
  /\ Quiescent
  /\ raised["ZeroDivisionError"] = 2

RaisedTotal == raised["ZeroDivisionError"] + raised["AttributeError"]
               + raised["LeagueError"] + raised["TypeError"]

\* C6: when the league answers get_job_info with no job or with an exception,
\* the greeting's handler ends there with an exception that reaches the
\* caller, and no dispatch event is emitted.
C6_LeagueFailure ==
  [][leagueFaults' < leagueFaults =>
       /\ RaisedTotal' = RaisedTotal + 1
       /\ raised["ZeroDivisionError"]' = raised["ZeroDivisionError"]
       /\ returned' = returned
       /\ \E t \in Threads : /\ th[t].pc = "acquire"
                              /\ th'[t].pc = "idle"
                              /\ \A u \in Threads \ {t} : th'[u] = th[u]
       /\ Holding' = Holding
       /\ lastEmit' = lastEmit
       /\ emitCount' = emitCount]_vars

C6_Witness ==
  /\ leagueFaults < MaxLeagueFaults
  /\ raised["AttributeError"] + raised["LeagueError"] = MaxLeagueFaults - leagueFaults
  /\ Quiescent
  /\ returned > 0

----------------------------------------------------------------------------
(* Properties of the throughput tracker *)

\* seconds accumulated by the tracker before the k-th data-arrived call of log
SecondsBeforeIn(log, k) == IF k = 1 THEN 0 ELSE log[k - 1].end - log[1].begin

SecondsBefore(k) == SecondsBeforeIn(dataLog, k)

\* the trajectories of a batch, one per (group, position)
TrajectoriesIn(batch) ==
  Cardinality(UNION {{<<i, j>> : j \in 1..Len(batch[i])} : i \in 1..Len(batch)})

\* C7: no rate sample is published by a call made before 600 seconds have
\* accumulated; the pre-collection-finished flag goes from false to true once
\* and never back; the accumulated timer is reset to zero at that transition
\* and at no other time.
C7_WarmUp ==
  [][/\ scalars' # scalars =>
          /\ Len(dataLog') > 0
          /\ SecondsBeforeIn(dataLog', Len(dataLog')) >= WarmupThreshold
     /\ pre_collect_finished => pre_collect_finished'
     /\ pre_collect_finished' # pre_collect_finished => total_get_data_time' = 0
     /\ total_get_data_time' < total_get_data_time =>
          ~pre_collect_finished /\ pre_collect_finished']_vars

C7_Witness ==
  /\ pre_collect_finished
  /\ Len(dataLog) = 3
  /\ dataLog[3].end # None
  /\ Len(scalars) = 2
  /\ total_get_data_time < WarmupThreshold

RECURSIVE PostWarmupSum(_)
\* trajectories of the finished calls 1..k that began with the warm-up over
PostWarmupSum(k) ==
  IF k = 0 THEN 0
  ELSE PostWarmupSum(k - 1)
       + (IF dataLog[k].end # None /\ SecondsBefore(k) >= WarmupThreshold
            THEN TrajectoriesIn(dataLog[k].data) ELSE 0)

\* C8: the trajectory counter is the number of trajectories in all groups of
\* the batches handled once the warm-up is over; warm-up batches add nothing.
C8_TrajectoryCount == traj_num = PostWarmupSum(Len(dataLog))

C8_Witness ==
  /\ Quiescent
  /\ Len(dataLog) = 4
  /\ TrajectoriesIn(dataLog[1].data) > 0
  /\ TrajectoriesIn(dataLog[2].data) > 0
  /\ dataLog[3].data # dataLog[4].data
  /\ traj_num = 5

----------------------------------------------------------------------------
(* Properties of the job-finished handler *)

C10_JobFinishedNeverFails ==
  /\ raised["TypeError"] = 0
  /\ Quiescent => /\ total_recv_jobs = nJobEvents
                  /\ SumOf(payoffs, FinishedJobs) = nJobEvents

----------------------------------------------------------------------------
(* Properties of the greeting handler, continued *)

\* C17: a greeting of actor a that succeeds emits exactly one dispatch event,
\* on a's channel, carrying the job with actor_id = a, and a handler gets
\* to the emit only through line 90, which has put that job into the table
\* under a's key; a greeting that fails emits nothing.
C17_RecordedThenDispatched ==
  [][/\ (returned' # returned) <=> (emitCount' # emitCount)
     /\ emitCount' # emitCount =>
          \E t \in Threads :
            /\ th[t].pc = "emit" /\ th'[t].pc = "idle"
            /\ returned' = returned + 1
            /\ emitCount' = [emitCount EXCEPT ![th[t].job.job_no] = @ + 1]
            /\ lastEmit'.channel = DispatchChannel(th[t].actor)
            /\ lastEmit'.job = th[t].job
            /\ lastEmit'.job.actor_id = th[t].actor
     /\ \A t \in Threads :
          (th'[t].pc = "emit" /\ th[t].pc # "emit") =>
            /\ th[t].pc = "record"
            /\ th'[t].actor = th[t].actor
            /\ th'[t].job.actor_id = th[t].actor
            /\ ActorKey(th[t].actor) \in DOMAIN running_jobs'
            /\ running_jobs'[ActorKey(th[t].actor)] = th'[t].job]_vars

C17_Witness ==
  /\ returned = 2
  /\ SumOf(emitCount, JobNos) = 2
  /\ lastEmit.channel = DispatchChannel(2)
  /\ lastEmit.job.actor_id = 2
  /\ ActorKey(2) \in DOMAIN running_jobs
  /\ running_jobs[ActorKey(2)] = lastEmit.job
  /\ RaisedTotal = 1

\* C18: a greeting that fails in the critical section (no active player, or
\* the league raising or handing out no job) leaves the jobs-sent counter and
\* the table as they were, emits nothing and leaves the lock free; the
\* numbers of the greetings that succeed stay 0, 1, 2, ... without a gap, and
\* every greeting taken up, also after a failure, is handled to its end.
C18_FailedGreetingHarmless ==
  /\ [][RaisedTotal' # RaisedTotal =>
          /\ RaisedTotal' = RaisedTotal + 1
          /\ total_send_jobs' = total_send_jobs
          /\ running_jobs' = running_jobs
          /\ emitCount' = emitCount
          /\ lock' = NoThread]_vars
  /\ [](/\ Dispatched \cup {th[t].job.job_no : t \in Holding}
             = 0..(returned + Cardinality(Holding) - 1)
        /\ Quiescent => /\ Dispatched = 0..(returned - 1)
                        /\ total_send_jobs = returned
                        /\ returned + RaisedTotal = nGreetings)
  /\ \A t \in Threads : (th[t].pc = "acquire") ~> (th[t].pc = "idle")

C18_Witness ==
  /\ RaisedTotal = 1
  /\ returned = 1
  /\ \E t \in Threads : th[t].pc = "incr" /\ lock = t /\ th[t].job.job_no = 1

----------------------------------------------------------------------------
(* Properties of the throughput tracker, continued *)

\* C11: when a data-arrived call after the warm-up measures zero elapsed
\* seconds, the handler absorbs the zero divisor: it returns without an
\* exception and publishes no sample for that call.
C11_ZeroElapsedAbsorbed ==
  [][\A t \in Threads :
       (InData(t) /\ pre_collect_finished /\ now = last_get_data_time
          /\ th'[t].pc = "idle")
         => (raised' = raised /\ returned' = returned + 1 /\ scalars' = scalars)]_vars

\* C13: every sample of the two throughput series is recorded with a step
\* equal to the all-time trajectory count at the moment it is published.
C13_StepIsTrajectoryCount ==
  [][\A i \in (Len(scalars) + 1)..Len(scalars') :
       scalars'[i].name \in {CurrentSpeed, TotalSpeed}
         => scalars'[i].step = traj_num']_vars

\* C14: update_payoff is called once for each job and never a second time,
\* also when the job-finished event of a job is delivered more than once.
C14_PayoffOncePerJob == \A job \in FinishedJobs : payoffs[job] <= 1

----------------------------------------------------------------------------
(* Properties of all handlers together *)

\* a counter that is None until its lazy initialisation and a number after
NeverLess(x, y) == x # None => (y # None /\ y >= x)

\* C12, as amended: over every sequence of events handled one at a time,
\* with a clock that never runs backwards, the jobs sent, the jobs received,
\* the cumulative collect time and the trajectory count never decrease; the
\* cumulative data-ingest time never decreases either, except that the
\* data-arrived call that ends the warm-up sets it back to zero, once.
C12_CountersMonotone ==
  [][/\ total_send_jobs' >= total_send_jobs
     /\ total_recv_jobs' >= total_recv_jobs
     /\ NeverLess(total_collect_time, total_collect_time')
     /\ traj_num' >= traj_num
     /\ \/ total_get_data_time' >= total_get_data_time
        \/ /\ pre_collect_finished = FALSE
           /\ pre_collect_finished' = TRUE
           /\ total_get_data_time' = 0]_vars

C12_Witness ==
  /\ pre_collect_finished
  /\ total_get_data_time = 0
  /\ Len(dataLog) = 2
  /\ dataLog[1].end - dataLog[1].begin >= WarmupThreshold
  /\ total_send_jobs > 0
  /\ total_recv_jobs > 0

\* C12, as stated: each of the five counters, the cumulative data-ingest
\* time included, is non-decreasing over every sequence of handled events.
C12_AllCountersMonotone ==
  [][/\ total_send_jobs' >= total_send_jobs
     /\ total_recv_jobs' >= total_recv_jobs
     /\ NeverLess(total_collect_time, total_collect_time')
     /\ traj_num' >= traj_num
     /\ total_get_data_time' >= total_get_data_time]_vars

\* C15: no entry of the running-jobs table is ever removed: the key set
\* only grows; an entry changes only when line 90 of a greeting of the same
\* actor overwrites it, which leaves every other entry alone; the job-finished,
\* learner-meta, data-arrived and periodic handlers never change the table.
C15_EntriesNeverRemoved ==
  [][/\ DOMAIN running_jobs \subseteq DOMAIN running_jobs'
     /\ running_jobs' # running_jobs =>
          \E t \in Threads :
            LET k == ActorKey(th[t].actor) IN
              /\ th[t].pc = "record"
              /\ DOMAIN running_jobs' = DOMAIN running_jobs \cup {k}
              /\ running_jobs'[k] = Greet_Annotate(th[t].job, th[t].actor)
              /\ \A x \in DOMAIN running_jobs \ {k} : running_jobs'[x] = running_jobs[x]
     /\ (\/ \E t \in Threads : InJob(t) \/ InData(t) \/ th[t].pc = "m_hist"
         \/ nJobEvents' # nJobEvents
         \/ dataLog' # dataLog
         \/ metaCalls' # metaCalls
         \/ nTicks' # nTicks)
          => running_jobs' = running_jobs]_vars

C15_Witness ==
  /\ Quiescent
  /\ DOMAIN running_jobs = {ActorKey(1)}
  /\ running_jobs[ActorKey(1)].job_no = 1
  /\ payoffs[[launch_player |-> "A", job_no |-> 0, is_eval |-> FALSE, actor_id |-> 1]] = 1
  /\ Len(metaCalls) = 2

----------------------------------------------------------------------------
(* Properties of dist_init *)

\* the statements at which the call has got past statement pc
DistPast(pc) ==
  CASE pc = "rank" -> dist.pc \in {"world_size", "group", "returned"}
                        \/ (dist.pc = "raised" /\ dist.at \in {"rank", "world_size", "group"})
    [] pc = "world_size" -> dist.pc \in {"group", "returned"}
                              \/ (dist.pc = "raised" /\ dist.at \in {"world_size", "group"})

\* C16: a call without rank, in an environment with neither SLURM_LOCALID
\* nor RANK, ends at the rank lookup with a RuntimeError: the lookup is made
\* once and init_process_group is never called. The same holds for a call
\* without world_size when neither SLURM_NTASKS nor WORLD_SIZE is set.
C16_MissingContextRaises ==
  /\ (/\ dist.args.rank = None
      /\ dist.env["SLURM_LOCALID"] = Unset
      /\ dist.env["RANK"] = Unset
      /\ DistPast("rank"))
       => /\ dist.pc = "raised" /\ dist.at = "rank"
          /\ dist.err = "RuntimeError" /\ dist.msg = RankMessage
          /\ dist.inits = 0
          /\ dist.steps = 2
  /\ (/\ dist.args.world_size = None
      /\ dist.env["SLURM_NTASKS"] = Unset
      /\ dist.env["WORLD_SIZE"] = Unset
      /\ DistPast("world_size"))
       => /\ dist.pc = "raised" /\ dist.at = "world_size"
          /\ dist.err = "RuntimeError" /\ dist.msg = WorldSizeMessage
          /\ dist.inits = 0
          /\ dist.steps = 3

C16_Witness ==
  /\ dist.pc = "raised"
  /\ dist.at = "rank"
  /\ dist.err = "RuntimeError"
  /\ dist.args.rank = None
  /\ dist.args.world_size = 2
  /\ dist.inits = 0

\* C20: a learner meta update is forwarded to update_active_player and then
\* to create_historical_player, with the meta received; this succeeds every
\* time, also for a player seen before, and changes nothing of the
\* dispatcher: counters, collect-time fields, table, tracker fields, samples.
C20_LearnerMetaForwarded ==
  /\ [](/\ \A i \in 1..Len(metaCalls) :
             /\ metaCalls[i].op = (IF i % 2 = 1 THEN "update_active_player"
                                                 ELSE "create_historical_player")
             /\ metaCalls[i].meta \in PlayerMetas
             /\ i % 2 = 0 => metaCalls[i].meta = metaCalls[i - 1].meta
        /\ Len(metaCalls) % 2 = 1 <=> \E t \in Threads : th[t].pc = "m_hist"
        /\ \A t \in Threads :
             th[t].pc = "m_hist" => th[t].meta = metaCalls[Len(metaCalls)].meta)
  /\ [][metaCalls' # metaCalls =>
          /\ Len(metaCalls') = Len(metaCalls) + 1
          /\ raised' = raised
          /\ returned' = returned + (IF Len(metaCalls') % 2 = 0 THEN 1 ELSE 0)
          /\ UNCHANGED <<total_send_jobs, total_recv_jobs, last_collect_time,
                         total_collect_time, running_jobs, lock, eval_frequency,
                         traj_num, last_get_data_time, total_get_data_time,
                         pre_collect_finished, scalars, payoffs>>]_vars

C20_Witness ==
  /\ Quiescent
  /\ Len(metaCalls) = 4
  /\ metaCalls[1].meta = metaCalls[3].meta
  /\ total_send_jobs = 1
  /\ total_recv_jobs = 1
  /\ RaisedTotal = 0

----------------------------------------------------------------------------
(* Properties of concurrent job-finished handlers *)

\* C19: when job-finished handlers run concurrently no update is lost: once
\* K events are handled the received count is K and the accumulated collect
\* time is the sum of the gaps the handlers measured.
C19_NoLostUpdates ==
  (\A t \in Threads : ~InJob(t)) =>
    /\ total_recv_jobs = nJobEvents
    /\ total_collect_time # None => total_collect_time = gapSum

====
